---- MODULE Spec2Model ----
(***************************************************************************)
(* Model of devices/stepper.py: class StepperMotor.                        *)
(*                                                                         *)
(* One foreground thread calls the public operations of one StepperMotor.  *)
(* forward() and backward() start a GPIOThread running _move_device; the   *)
(* thread and the foreground interleave at the granularity of one loop     *)
(* statement of _move_device.  GPIOThread is gpiozero's: stop() sets the   *)
(* thread's `stopping` event and joins it, start() clears the event.       *)
(* The delay between steps is abstracted: a wait on the event returns      *)
(* True when the event is set and False (time-out) otherwise.  Pin writes   *)
(* return promptly, so the 10 s time-out of the join inside stop() never   *)
(* expires, and fps is positive.                                           *)
(***************************************************************************)
EXTENDS Integers, Sequences, FiniteSets, TLC

\* ---------------------------------------------------------------- bounds
NumPins == 2        \* len(pins) of the controller under test
MaxPos == 4         \* position setter is called with pos from -MaxPos to MaxPos
MaxCount == 2       \* forward/backward are called with n = 0, MaxCount or None
MaxThreads == 2     \* GPIOThread objects that can exist at the same time
MaxTablePins == 4   \* the coil table is built for len(pins) in 1..MaxTablePins

NoneVal == 0 - 1    \* Python's None, where an integer or a thread is expected

Pins == 1..NumPins
ThreadIds == 1..MaxThreads
\* pos given to position.setter: around zero, and far enough out to leave the table.
PosInputs == {0 - MaxPos, 0 - 1, 0, 1, MaxPos}
\* n given to forward()/backward(): unbounded, no step at all, several steps.
CountInputs == {NoneVal, 0, MaxCount}
DirInputs == {0 - 1, 0, 1}
\* Patterns given to value.setter: every valid one, and every all-zero or all-one
\* pattern with one component replaced by 2, which is neither 0 nor 1.
ValueInputs ==
    [Pins -> {0, 1}]
    \cup {[j \in Pins |-> IF j = b THEN 2 ELSE x] : b \in Pins, x \in {0, 1}}

VARIABLES
    built,          \* __init__ building self._coil_values: the tuple so far
    half_steps,     \* constructor argument half_steps
    coils,          \* self._coils: output level of each DigitalOutputDevice; <<>> once closed
    position,       \* self._position
    move_thread,    \* self._move_thread: a thread id, or NoneVal
    threads,        \* the GPIOThread objects: state of _move_device in each
    released,       \* per pin, how many times coil.close() was called on its handle
    fg,             \* the foreground thread: where it is in which call
    err,            \* exception raised to the caller by the current or latest call
    pos_at_stop     \* self._position when the latest call's _stop_move() returned

vars == <<built, half_steps, coils, position, move_thread, threads, released, fg, err, pos_at_stop>>

\* ------------------------------------------------------------ coil table
\* Mutant: the 1 of row i sits one index further on.
FullStepRowShifted(n, i) == [j \in 1..n |-> IF j = (i % n) + 1 THEN 1 ELSE 0]

\* __init__, lines 54-56: row i has a 1 at index i only (1-based here).
FullStepRow(n, i) == [j \in 1..n |-> IF i = j THEN 1 ELSE 0]

Min(a, b) == IF a < b THEN a ELSE b

\* Mutant: the two full-step rows are added without the cap min(1, ...).
HalfStepRowUncapped(n, i) ==
    [j \in 1..n |-> FullStepRow(n, (i \div 2) + 1)[j]
                    + FullStepRow(n, (((i + 1) \div 2) % n) + 1)[j]]

\* __init__, lines 58-60: row i (0-based) is full row i//2 OR full row ((i+1)//2) % n.
HalfStepRow(n, i) ==
    [j \in 1..n |-> Min(1, FullStepRow(n, (i \div 2) + 1)[j]
                           + FullStepRow(n, (((i + 1) \div 2) % n) + 1)[j])]

\* self._coil_values as a sequence of rows; row at Python index i is CoilValues(n, h)[i + 1].
CoilValues(n, half) ==
    IF half THEN [i \in 1..(2 * n) |-> HalfStepRow(n, i - 1)]
    ELSE [i \in 1..n |-> FullStepRow(n, i)]

coil_values == CoilValues(NumPins, half_steps)
TableLen == Len(coil_values)

\* self._zero
Zero == [j \in Pins |-> 0]

\* Python's tuple indexing t[i]: -len <= i < len is defined (negative counts from
\* the end), everything else raises IndexError.
IndexOk(i) == (0 - TableLen) <= i /\ i < TableLen
Row(i) == coil_values[(i % TableLen) + 1]

\* ------------------------------------------------------------ GPIOThread
\* A thread object that does not exist (never created, or dead and no longer referenced).
FreeThread ==
    [st |-> "free", direction |-> 0, n |-> 0, pc |-> "iter", k |-> 0, row |-> 0,
     stopping |-> FALSE, count |-> 0, taken |-> 0]

\* GPIOThread(self._move_device, (direction, n, fps)) followed by start(): the event is
\* cleared and the target is about to execute its first loop test.  n is the number of
\* items left in `sequence` (range(n)), NoneVal for cycle((0,)); count is the argument
\* n itself and taken the number of steps a thread with a finite count has made.
StartedThread(direction, n) ==
    [st |-> "alive", direction |-> direction, n |-> n, pc |-> "iter", k |-> 0, row |-> 0,
     stopping |-> FALSE, count |-> n, taken |-> 0]

Alive == {t \in ThreadIds : threads[t].st = "alive"}

\* Mutant: a join that does not wait for the thread to end.
JoinedNoWait(t) == TRUE

\* Thread.join() returns once the thread is no longer alive.
Joined(t) == threads[t].st # "alive"

\* The thread object t once nothing refers to it any more: a dead one is gone, and
\* so is one that an exception ended.
Dropped(ths, t) ==
    IF ths[t].st \in {"dead", "failed"} THEN [ths EXCEPT ![t] = FreeThread] ELSE ths

\* The target of thread t returns or raises: the thread is dead; the object stays
\* only while self._move_thread refers to it.
Ended(t) ==
    IF move_thread = t THEN [threads EXCEPT ![t].st = "dead"]
    ELSE [threads EXCEPT ![t] = FreeThread]

\* ---------------------------------------------------------- the calls
\* value getter, line 81
Value == coils

\* closed, line 77
Closed == Len(coils) = 0

\* A call of the foreground thread and its arguments; the fields a call does not
\* take are left at their defaults.  hit records that the call's _stop_move() found
\* its thread still alive, was_closed that the call was made on a closed controller,
\* saw_failure that the thread its _stop_move() joined had been ended by a pin error.
Call(name, val, pos, dir, n, bg) ==
    [pc |-> "idle", op |-> name, val |-> val, pos |-> pos, dir |-> dir, n |-> n, bg |-> bg,
     hit |-> FALSE, was_closed |-> Closed, saw_failure |-> FALSE]

NoCall == Call("init", <<>>, 0, 0, 0, FALSE)

Idle == fg.pc = "idle"

Return == [fg EXCEPT !.pc = "idle"]

\* value.setter, lines 85-88: the components are validated before anything else.
ValidValue(v) == \A j \in DOMAIN v : v[j] \in {0, 1}

\* Line 87 names OutputDeviceBadValue, which line 3 does not import: evaluating the
\* raise statement raises NameError.
BadValueError == "NameError"

\* value.setter, lines 91-92: zip(self._coils, value) writes as many pins as both have.
WriteValue(cs, v) == [j \in DOMAIN cs |-> IF j \in DOMAIN v THEN v[j] ELSE cs[j]]

\* is_active, line 106
IsActive == Value # Zero

\* step(), lines 118-121
StepPosition(p, direction) ==
    IF direction > 0 THEN (p + 1) % TableLen ELSE (p + TableLen - 1) % TableLen

\* _move_device(), lines 156-159
MovePosition(p, direction) ==
    IF direction > 0 THEN (p + 1) % TableLen ELSE (p + TableLen - 1) % TableLen

\* position.setter, line 101
StoredPosition(pos) == pos

\* Mutant: the call goes on without stopping the thread in the slot.
StopMoveSkipped(call) ==
    /\ fg' = [call EXCEPT !.pc = "body"]
    /\ pos_at_stop' = position
    /\ UNCHANGED threads

\* _stop_move(), lines 141-142, at the start of the call `call`: with a thread in the
\* slot, stop() sets its event and starts joining it; with None the call goes on.
StopMove(call) ==
    IF move_thread # NoneVal
    THEN /\ threads' = [threads EXCEPT ![move_thread].stopping = TRUE]
         /\ fg' = [call EXCEPT !.pc = "join", !.hit = (move_thread \in Alive)]
         /\ UNCHANGED pos_at_stop
    ELSE /\ fg' = [call EXCEPT !.pc = "body"]
         /\ pos_at_stop' = position
         /\ UNCHANGED threads

\* __init__, lines 54-60, once self._coil_values is complete for n pins.
Constructed(n, half) ==
    [n |-> n, half |-> half, phase |-> "done", rows |-> CoilValues(n, half), row |-> <<>>]

Init ==
    /\ half_steps \in BOOLEAN
    /\ built = Constructed(NumPins, half_steps)
    /\ coils = Zero
    /\ position = 0
    /\ move_thread = NoneVal
    /\ threads = [t \in ThreadIds |-> FreeThread]
    /\ released = [j \in Pins |-> 0]
    /\ fg = NoCall
    /\ err = "none"
    /\ pos_at_stop = 0

\* motor.value = v, lines 85-89: validation, then _stop_move().
value_set ==
    /\ Idle
    /\ \E v \in ValueInputs :
          IF ValidValue(v)
          THEN /\ StopMove(Call("value", v, 0, 0, 0, FALSE))
               /\ err' = "none"
          ELSE /\ fg' = Call("value", v, 0, 0, 0, FALSE)
               /\ err' = BadValueError
               /\ UNCHANGED <<threads, pos_at_stop>>
    /\ UNCHANGED <<built, half_steps, coils, position, move_thread, released>>

\* motor.position = pos, line 100
position_set ==
    /\ Idle
    /\ \E pos \in PosInputs : StopMove(Call("position", <<>>, pos, 0, 0, FALSE))
    /\ err' = "none"
    /\ UNCHANGED <<built, half_steps, coils, position, move_thread, released>>

\* motor.off(), line 109
off ==
    /\ Idle
    /\ StopMove(Call("off", <<>>, 0, 0, 0, FALSE))
    /\ err' = "none"
    /\ UNCHANGED <<built, half_steps, coils, position, move_thread, released>>

\* motor.on(), line 113
on ==
    /\ Idle
    /\ StopMove(Call("on", <<>>, 0, 0, 0, FALSE))
    /\ err' = "none"
    /\ UNCHANGED <<built, half_steps, coils, position, move_thread, released>>

\* motor.step(direction), line 117
step ==
    /\ Idle
    /\ \E d \in DirInputs : StopMove(Call("step", <<>>, 0, d, 0, FALSE))
    /\ err' = "none"
    /\ UNCHANGED <<built, half_steps, coils, position, move_thread, released>>

\* motor.forward(n, background=bg), line 125; the thread will get direction 1.
forward ==
    /\ Idle
    /\ \E n \in CountInputs, bg \in BOOLEAN : StopMove(Call("forward", <<>>, 0, 1, n, bg))
    /\ err' = "none"
    /\ UNCHANGED <<built, half_steps, coils, position, move_thread, released>>

\* motor.backward(n, background=bg), line 133; the thread will get direction 0.
backward ==
    /\ Idle
    /\ \E n \in CountInputs, bg \in BOOLEAN : StopMove(Call("backward", <<>>, 0, 0, n, bg))
    /\ err' = "none"
    /\ UNCHANGED <<built, half_steps, coils, position, move_thread, released>>

\* motor.close(), lines 68-69 and 72-73: with _coils already empty the call does
\* neither _stop_move() nor any release.
close ==
    /\ Idle
    /\ IF Closed
       THEN /\ fg' = Call("close", <<>>, 0, 0, 0, FALSE)
            /\ UNCHANGED <<threads, pos_at_stop>>
       ELSE StopMove(Call("close", <<>>, 0, 0, 0, FALSE))
    /\ err' = "none"
    /\ UNCHANGED <<built, half_steps, coils, position, move_thread, released>>

\* _stop_move(), lines 142-143: the join inside stop() returns, the slot is cleared.
stop_join ==
    /\ fg.pc = "join"
    /\ Joined(move_thread)
    /\ move_thread' = NoneVal
    /\ threads' = Dropped(threads, move_thread)
    /\ fg' = [fg EXCEPT !.pc = "body", !.saw_failure = (threads[move_thread].st = "failed")]
    /\ pos_at_stop' = position
    /\ UNCHANGED <<built, half_steps, coils, position, released, err>>

\* Mutant: a written pattern that is a row of the table also moves _position there
\* (the TODO of line 90).
value_write_resync ==
    /\ fg.pc = "body" /\ fg.op = "value"
    /\ coils' = WriteValue(coils, fg.val)
    /\ position' = IF \E i \in 0..(TableLen - 1) : Row(i) = fg.val
                   THEN CHOOSE i \in 0..(TableLen - 1) : Row(i) = fg.val
                   ELSE position
    /\ fg' = Return
    /\ UNCHANGED <<built, half_steps, move_thread, threads, released, err, pos_at_stop>>

\* value.setter, lines 91-92, after its _stop_move()
value_write ==
    /\ fg.pc = "body" /\ fg.op = "value"
    /\ coils' = WriteValue(coils, fg.val)
    /\ fg' = Return
    /\ UNCHANGED <<built, half_steps, position, move_thread, threads, released, err, pos_at_stop>>

\* position.setter, lines 101-102, after its _stop_move(): the nested value.setter
\* finds a valid row and an empty slot.
position_write ==
    /\ fg.pc = "body" /\ fg.op = "position"
    /\ position' = StoredPosition(fg.pos)
    /\ coils' = WriteValue(coils, Row(fg.pos))
    /\ fg' = Return
    /\ UNCHANGED <<built, half_steps, move_thread, threads, released, err, pos_at_stop>>

\* Mutant: off() writes the first row of the table.
OffValueFirstRow == coil_values[1]

\* off(), line 110
OffValue == Zero

off_write ==
    /\ fg.pc = "body" /\ fg.op = "off"
    /\ coils' = WriteValue(coils, OffValue)
    /\ fg' = Return
    /\ UNCHANGED <<built, half_steps, position, move_thread, threads, released, err, pos_at_stop>>

\* on(), line 114: self._coil_values[self._position] raises IndexError when the
\* stored position is no index of the table.
on_write ==
    /\ fg.pc = "body" /\ fg.op = "on"
    /\ IF IndexOk(position)
       THEN /\ coils' = WriteValue(coils, Row(position))
            /\ UNCHANGED err
       ELSE /\ err' = "IndexError"
            /\ UNCHANGED coils
    /\ fg' = Return
    /\ UNCHANGED <<built, half_steps, position, move_thread, threads, released, pos_at_stop>>

\* step(), lines 118-122
step_write ==
    /\ fg.pc = "body" /\ fg.op = "step"
    /\ position' = StepPosition(position, fg.dir)
    /\ coils' = WriteValue(coils, Row(position'))
    /\ fg' = Return
    /\ UNCHANGED <<built, half_steps, move_thread, threads, released, err, pos_at_stop>>

\* forward()/backward(), lines 126-128 and 134-136: a new thread object is put into
\* the slot and started; a background call returns, the other goes on to join it.
StartMove(name) ==
    /\ fg.pc = "body" /\ fg.op = name
    /\ \E t \in ThreadIds :
          /\ threads[t].st = "free"
          /\ \A u \in ThreadIds : threads[u].st = "free" => t <= u
          /\ move_thread' = t
          /\ threads' = [threads EXCEPT ![t] = StartedThread(fg.dir, fg.n)]
    /\ fg' = IF fg.bg THEN Return ELSE [fg EXCEPT !.pc = "wait"]
    /\ UNCHANGED <<built, half_steps, coils, position, released, err, pos_at_stop>>

forward_start == StartMove("forward")

backward_start == StartMove("backward")

\* forward()/backward(), lines 129-130 and 137-138: join, then clear the slot.
JoinMove(name) ==
    /\ fg.pc = "wait" /\ fg.op = name
    /\ move_thread # NoneVal
    /\ Joined(move_thread)
    /\ move_thread' = NoneVal
    /\ threads' = Dropped(threads, move_thread)
    /\ fg' = Return
    /\ UNCHANGED <<built, half_steps, coils, position, released, err, pos_at_stop>>

forward_join == JoinMove("forward")

backward_join == JoinMove("backward")

\* Mutant: close() releases the handles but keeps them in _coils (line 72 left out).
close_release_keeps_coils ==
    /\ fg.pc = "body" /\ fg.op = "close"
    /\ released' = [j \in Pins |-> IF j \in DOMAIN coils THEN released[j] + 1 ELSE released[j]]
    /\ fg' = Return
    /\ UNCHANGED <<built, half_steps, coils, position, move_thread, threads, err, pos_at_stop>>

\* close(), lines 70-73, after its _stop_move(): every handle is released.
close_release ==
    /\ fg.pc = "body" /\ fg.op = "close"
    /\ released' = [j \in Pins |-> IF j \in DOMAIN coils THEN released[j] + 1 ELSE released[j]]
    /\ coils' = <<>>
    /\ fg' = Return
    /\ UNCHANGED <<built, half_steps, position, move_thread, threads, err, pos_at_stop>>

\* --------------------------------------------------------- _move_device
\* Mutant: the sequence never runs out.
ExhaustedNever(th) == FALSE

\* Line 155: `for x in sequence` finds no further item.
Exhausted(th) == th.n = 0

\* Line 155 and lines 156-160: the loop takes the next item of `sequence`, or ends
\* when there is none; it then moves _position and picks the row to write.
move_iter(t) ==
    /\ threads[t].st = "alive" /\ threads[t].pc = "iter"
    /\ IF Exhausted(threads[t])
       THEN /\ threads' = Ended(t)
            /\ UNCHANGED position
       ELSE /\ position' = MovePosition(position, threads[t].direction)
            /\ threads' = [threads EXCEPT
                  ![t].n = IF @ = NoneVal THEN @ ELSE @ - 1,
                  ![t].taken = IF threads[t].count = NoneVal THEN @ ELSE @ + 1,
                  ![t].pc = IF Closed THEN "wait" ELSE "write",
                  ![t].k = IF Closed THEN 0 ELSE 1,
                  ![t].row = IF Closed THEN 0 ELSE position']
    /\ UNCHANGED <<built, half_steps, coils, move_thread, released, fg, err, pos_at_stop>>

\* Lines 160-161: one c._write(v) of the zip; a handle closed meanwhile raises.
move_write(t) ==
    /\ threads[t].st = "alive" /\ threads[t].pc = "write"
    /\ LET k == threads[t].k IN
       IF k \in DOMAIN coils
       THEN /\ coils' = [coils EXCEPT ![k] = Row(threads[t].row)[k]]
            /\ threads' = IF k = Len(coils)
                          THEN [threads EXCEPT ![t].pc = "wait", ![t].k = 0, ![t].row = 0]
                          ELSE [threads EXCEPT ![t].k = k + 1]
       ELSE /\ threads' = Ended(t)
            /\ UNCHANGED coils
    /\ UNCHANGED <<built, half_steps, position, move_thread, released, fg, err, pos_at_stop>>

\* Mutant: the loop goes on whether or not the event is set.
move_wait_ignores_event(t) ==
    /\ threads[t].st = "alive" /\ threads[t].pc = "wait"
    /\ threads' = [threads EXCEPT ![t].pc = "iter"]
    /\ UNCHANGED <<built, half_steps, coils, position, move_thread, released, fg, err, pos_at_stop>>

\* Lines 162-163: self._move_thread.stopping.wait(delay).  The slot is read when the
\* wait starts: None has no attribute `stopping` (AttributeError ends the thread);
\* a set event breaks the loop; otherwise the delay passes and the loop goes on.
move_wait(t) ==
    /\ threads[t].st = "alive" /\ threads[t].pc = "wait"
    /\ IF move_thread = NoneVal
       THEN threads' = Ended(t)
       ELSE IF threads[move_thread].stopping
            THEN threads' = Ended(t)
            ELSE threads' = [threads EXCEPT ![t].pc = "iter"]
    /\ UNCHANGED <<built, half_steps, coils, position, move_thread, released, fg, err, pos_at_stop>>

Next ==
    \/ value_set \/ position_set \/ off \/ on \/ step \/ forward \/ backward \/ close
    \/ stop_join
    \/ value_write \/ position_write \/ off_write \/ on_write \/ step_write
    \/ forward_start \/ backward_start \/ forward_join \/ backward_join
    \/ close_release
    \/ \E t \in ThreadIds : move_iter(t) \/ move_wait(t) \/ move_write(t)

Spec == Init /\ [][Next]_vars

\* ---------------------------------------------------------- scheduling
\* One step of the thread t, whichever statement it is at.
ThreadStep(t) == move_iter(t) \/ move_write(t) \/ move_wait(t)

\* The foreground thread goes on inside the call it is in.
CallStep ==
    \/ stop_join
    \/ value_write \/ position_write \/ off_write \/ on_write \/ step_write
    \/ forward_start \/ backward_start \/ forward_join \/ backward_join
    \/ close_release

\* A step of a thread that can run: a motion thread, or the foreground inside a call.
Running == (\E t \in ThreadIds : ThreadStep(t)) \/ CallStep

\* While some thread can run, some thread is run; when the caller makes its next call
\* is left open.  (Python schedules every runnable thread, which is more than this.)
FairSpec == Spec /\ WF_vars(Running)

\* ------------------------------------------------------ failing pin writes
\* Lines 160-161: c._write(v) raises.  Nothing in _move_device catches the exception:
\* it ends the thread's target, and the thread object keeps no trace of it that the
\* class reads (st "failed" is what a later join finds, for the claims only).
move_write_fails(t) ==
    /\ threads[t].st = "alive" /\ threads[t].pc = "write"
    /\ threads' = IF move_thread = t THEN [threads EXCEPT ![t].st = "failed"]
                  ELSE [threads EXCEPT ![t] = FreeThread]
    /\ UNCHANGED <<built, half_steps, coils, position, move_thread, released, fg, err, pos_at_stop>>

FailNext == Next \/ \E t \in ThreadIds : move_write_fails(t)

\* The controller with pins whose writes may fail inside the motion thread.
FailSpec == Init /\ [][FailNext]_vars

\* ------------------------------------------------- building the coil table
\* __init__, lines 54-60, for any number of pins: the generator expressions yield
\* one component after the other, a complete row is added to the tuple, and the
\* complete full-step tuple is replaced by the half-step one when half_steps is set.
TableInit ==
    /\ \E n \in 1..MaxTablePins, half \in BOOLEAN :
          /\ built = [n |-> n, half |-> half, phase |-> "full", rows |-> <<>>, row |-> <<>>]
          /\ half_steps = half
    /\ coils = Zero
    /\ position = 0
    /\ move_thread = NoneVal
    /\ threads = [t \in ThreadIds |-> FreeThread]
    /\ released = [j \in Pins |-> 0]
    /\ fg = NoCall
    /\ err = "none"
    /\ pos_at_stop = 0

\* Lines 55 and 59: the next component of the row under construction.
table_element ==
    /\ built.phase # "done"
    /\ Len(built.row) < built.n
    /\ LET j == Len(built.row) + 1
           i == Len(built.rows)
       IN built' = [built EXCEPT !.row = Append(@,
                       IF built.phase = "full" THEN FullStepRow(built.n, i + 1)[j]
                       ELSE HalfStepRow(built.n, i)[j])]
    /\ UNCHANGED <<half_steps, coils, position, move_thread, threads, released, fg, err,
                   pos_at_stop>>

\* Lines 54-56 and 58-60: a complete row joins the tuple; the complete tuple becomes
\* self._coil_values, and with half_steps the half-step tuple is built from it next.
table_row ==
    /\ built.phase # "done"
    /\ Len(built.row) = built.n
    /\ LET rows == Append(built.rows, built.row)
           want == IF built.phase = "full" THEN built.n ELSE 2 * built.n
       IN built' =
            IF Len(rows) < want THEN [built EXCEPT !.rows = rows, !.row = <<>>]
            ELSE IF built.phase = "full" /\ built.half
                 THEN [built EXCEPT !.phase = "half", !.rows = <<>>, !.row = <<>>]
                 ELSE [built EXCEPT !.phase = "done", !.rows = rows, !.row = <<>>]
    /\ UNCHANGED <<half_steps, coils, position, move_thread, threads, released, fg, err,
                   pos_at_stop>>

TableNext == table_element \/ table_row

TableSpec == TableInit /\ [][TableNext]_vars

\* ================================================================ claims
Moves == {"forward", "backward"}

\* C1: in every reachable state at most one motion thread is alive.
C1_AtMostOneTask == Cardinality(Alive) <= 1

\* forward()/backward() has started a new thread after cancelling a live one.
C1_Witness ==
    /\ fg.op \in Moves /\ fg.hit /\ fg.pc \in {"idle", "wait"}
    /\ move_thread \in Alive

\* C2: whenever the foreground thread is past _stop_move() and about to write
\* _position, the pins or the slot, no motion thread is alive.
C2_NoForegroundWriteWhileTaskAlive == fg.pc = "body" => Alive = {}

\* A call is about to write after its _stop_move() cancelled a live thread.
C2_Witness ==
    /\ fg.pc = "body" /\ fg.hit
    /\ fg.op \in {"value", "position", "off", "on", "step", "close"}

\* C3: once position.setter is past its _stop_move(), and after it has returned until
\* the next call, no motion thread is alive, and after the return _position and the
\* pins are the ones the setter wrote.
C3_PositionSetStopsTask ==
    (fg.op = "position" /\ fg.pc \in {"body", "idle"}) =>
        /\ Alive = {}
        /\ Idle => /\ position % TableLen = fg.pos % TableLen
                   /\ Value = WriteValue(coils, Row(fg.pos))

\* position.setter has returned after cancelling a live thread.
C3_Witness == fg.op = "position" /\ Idle /\ fg.hit /\ ~Closed

\* C4: after motor.position = pos, motor.position is pos mod len(CoilTable), a value
\* in [0, len(CoilTable)).
C4_SetThenGetPosition ==
    (fg.op = "position" /\ Idle) =>
        /\ position = fg.pos % TableLen
        /\ position \in 0..(TableLen - 1)

\* C5: in every reachable state _position is in [0, len(CoilTable)).
C5_PositionInRange == position \in 0..(TableLen - 1)

\* C6: when step(direction) has returned, _position is one more (direction > 0) or
\* one less (otherwise) than before, modulo len(CoilTable), and Value is the row
\* of the new position.
C6_StepLandsOnNeighbour ==
    (fg.op = "step" /\ Idle) =>
        /\ position = IF fg.dir > 0 THEN (pos_at_stop + 1) % TableLen
                      ELSE (pos_at_stop - 1 + TableLen) % TableLen
        /\ Value = Row(position)

\* C7: when forward(n, background=False) with a finite n has returned, no motion
\* thread is alive and _position is (p + n) mod len(CoilTable); backward likewise
\* leaves (p - n) mod len(CoilTable).
C7_BlockingMoveLandsOnTarget ==
    (fg.op \in Moves /\ ~fg.bg /\ fg.n # NoneVal /\ Idle) =>
        /\ Alive = {}
        /\ position = IF fg.op = "forward" THEN (pos_at_stop + fg.n) % TableLen
                      ELSE (pos_at_stop - fg.n) % TableLen

\* C8: motor.value = v with a component outside {0, 1} raises the invalid-value error
\* and changes neither the pins, nor _position, nor the motion thread.
C8_BadValueRejected ==
    [][(value_set /\ ~ValidValue(fg'.val)) =>
          /\ err' = "OutputDeviceBadValue"
          /\ UNCHANGED <<coils, position, move_thread, threads>>]_vars

\* C9: when motor.value = v with a valid v has returned, _position is what it was
\* when the call's _stop_move() returned.
C9_ValueSetKeepsPosition ==
    (fg.op = "value" /\ ValidValue(fg.val) /\ Idle) => position = pos_at_stop

\* value.setter has written a row of the table other than the one of _position,
\* after cancelling a live thread.
C9_Witness ==
    /\ fg.op = "value" /\ ValidValue(fg.val) /\ Idle /\ fg.hit /\ ~Closed
    /\ \E i \in 0..(TableLen - 1) : Row(i) = fg.val /\ i # position % TableLen

\* C10: when off() has returned on an open controller, Value is all zero, is_active
\* is false, _position is what it was when the thread was stopped, and no motion
\* thread is alive.
C10_OffDeenergizes ==
    (fg.op = "off" /\ Idle /\ ~Closed) =>
        /\ Value = Zero
        /\ ~IsActive
        /\ position = pos_at_stop
        /\ Alive = {}

\* off() has returned after cancelling a live thread on an open controller.
C10_Witness == fg.op = "off" /\ Idle /\ ~Closed /\ fg.hit

\* C11: close() releases every pin handle exactly once and only after the motion
\* thread has been joined; whenever close() has returned, the first time or again,
\* it raised nothing, the controller is closed and no handle was released twice.
C11_CloseIdempotent ==
    /\ \A j \in Pins : released[j] <= 1
    /\ Closed <=> \A j \in Pins : released[j] = 1
    /\ (fg.op = "close" /\ fg.pc = "body") => Alive = {}
    /\ (fg.op = "close" /\ Idle) => (Closed /\ err = "none")

\* close() has returned on a controller that was already closed.
C11_Witness ==
    /\ fg.op = "close" /\ Idle /\ fg.was_closed
    /\ \A j \in Pins : released[j] = 1

\* C12: a call other than close() made on a closed controller raises the closed-device
\* error at once: it never gets as far as _stop_move() or its writes.
C12_ClosedDeviceRejects ==
    (fg.was_closed /\ fg.op \notin {"close", "init"}) => (Idle /\ err = "DeviceClosed")

\* The coils a row switches on, once the row holds nothing but 0 and 1.
Active(r) == {j \in DOMAIN r : r[j] = 1}

Binary(r) == \A j \in DOMAIN r : r[j] \in {0, 1}

\* A finished half-step table for at least minPins pins has 2N rows of N components;
\* row 0 has coil 0 alone active, every even row has exactly one active coil and
\* every odd row exactly two, which are cyclic neighbours.
HalfStepAlternates(minPins) ==
    (built.phase = "done" /\ built.half /\ built.n >= minPins) =>
        /\ Len(built.rows) = 2 * built.n
        /\ \A i \in 1..Len(built.rows) : Len(built.rows[i]) = built.n /\ Binary(built.rows[i])
        /\ built.rows[1] = [j \in 1..built.n |-> IF j = 1 THEN 1 ELSE 0]
        /\ \A i \in 0..(Len(built.rows) - 1) :
              IF i % 2 = 0
              THEN Cardinality(Active(built.rows[i + 1])) = 1
              ELSE /\ Cardinality(Active(built.rows[i + 1])) = 2
                   /\ \E c \in 1..built.n :
                         Active(built.rows[i + 1]) = {c, (c % built.n) + 1}

\* C13 as stated: the half-step table has this shape for every N >= 1.
C13_HalfStepTableAnyN == HalfStepAlternates(1)

\* C13 as amended: the half-step table has 2N rows, row 0 is full-step row 0, even rows
\* have one active coil and odd rows two cyclically adjacent ones, for every N >= 2.
C13_HalfStepTable == HalfStepAlternates(2)

\* A half-step table for three or more pins is complete.
C13_Witness == built.phase = "done" /\ built.half /\ built.n >= 3

\* C14: the finished full-step table has N rows of N components, and row i has a 1
\* at index i and 0 everywhere else.
C14_FullStepTable ==
    (built.phase = "done" /\ ~built.half) =>
        /\ Len(built.rows) = built.n
        /\ \A i \in 1..Len(built.rows) :
              /\ Len(built.rows[i]) = built.n
              /\ \A j \in 1..built.n : built.rows[i][j] = (IF j = i THEN 1 ELSE 0)

\* A full-step table for three or more pins is complete.
C14_Witness == built.phase = "done" /\ ~built.half /\ built.n >= 3

\* C15: a thread started with a finite count n never makes more than n steps, and a
\* thread that finds its event set when it waits ends there: that step of the thread
\* leaves it not alive and changes neither _position nor a pin.
C15_TwoStopConditions ==
    /\ [](\A t \in ThreadIds :
             threads[t].count # NoneVal => threads[t].taken <= threads[t].count)
    /\ [][\A t \in ThreadIds :
             (/\ threads[t].st = "alive" /\ threads[t].pc = "wait" /\ threads[t].stopping
              /\ threads'[t] # threads[t])
             => (threads'[t].st # "alive" /\ position' = position /\ coils' = coils)]_vars

\* A thread asked for several steps was cancelled before it had made them all.
C15_Witness ==
    \E t \in ThreadIds :
        /\ threads[t].st = "dead" /\ threads[t].stopping
        /\ threads[t].count # NoneVal
        /\ 0 < threads[t].taken /\ threads[t].taken < threads[t].count

\* C16: when on() has returned on an open controller it raised nothing, Value is the
\* row of _position, and _position is what it was when the thread was stopped.
C16_OnReenergizes ==
    (fg.op = "on" /\ Idle /\ ~Closed) =>
        /\ err = "none"
        /\ IndexOk(position) /\ Value = Row(position)
        /\ position = pos_at_stop
        /\ Alive = {}

\* C18: whenever a live thread is at its wait on self._move_thread.stopping, the slot
\* holds that very thread.
C18_SlotIsWaitingThread ==
    \A t \in ThreadIds :
        (threads[t].st = "alive" /\ threads[t].pc = "wait") => move_thread = t

\* A thread is at its wait while the foreground joins it: in _stop_move() with the
\* event set, or in a forward()/backward() call with background=False.
C18_Witness ==
    \E t \in ThreadIds :
        /\ threads[t].st = "alive" /\ threads[t].pc = "wait" /\ move_thread = t
        /\ \/ fg.pc = "wait"
           \/ fg.pc = "join" /\ threads[t].stopping

\* C20: when no thread is alive and the call that returned last is position.setter,
\* step(), an on() that raised nothing, or a forward()/backward() whose thread made
\* all of its n >= 1 steps, Value is the row of _position mod len(CoilTable).
C20_PinsFollowPosition ==
    (/\ Idle /\ Alive = {}
     /\ \/ fg.op \in {"position", "step"}
        \/ fg.op = "on" /\ err = "none"
        \/ fg.op \in Moves /\ fg.n >= 1)
    => Value = Row(position)

\* C17: a close(), forward() or backward() whose _stop_move() joined a thread that a
\* failed pin write had ended raises that failure to its caller.
C17_TaskFailureSurfaces ==
    (fg.saw_failure /\ fg.op \in {"close", "forward", "backward"} /\ fg.pc # "join")
    => (Idle /\ err = "PinIOFailure")

\* forward()/backward() with n = None and background=False: the call joins a thread
\* that only a cancellation could end.
BlocksForever == fg.op \in Moves /\ fg.n = NoneVal /\ ~fg.bg

\* C19: with the threads scheduled fairly, every call other than a forward()/backward()
\* with n = None and background=False returns.
C19_CallsReturn == (~Idle /\ ~BlocksForever) ~> Idle

\* A call is joining, in _stop_move(), a live thread that has no count to run out of.
C19_Witness ==
    /\ fg.pc = "join" /\ ~BlocksForever
    /\ move_thread \in Alive /\ threads[move_thread].count = NoneVal

====
